---------------------------- MODULE Spec2Model ----------------------------
(***************************************************************************)
(* Model of src/string_view/string_view.cpp: the non-owning                *)
(* MyStd::BasicStringView, its capability-probing constructor, the sample   *)
(* source classes of MyLib, the function f and the statements of main.      *)
(*                                                                         *)
(* A run is one translation unit: a sequence of statements of the forms    *)
(* main uses (f( x ), the four "Check" blocks and the closing direct        *)
(* initialisation), first compiled (overload resolution and the if          *)
(* constexpr chain are decided per statement, before anything runs) and     *)
(* then executed statement by statement.  Init draws either main's own      *)
(* statement list or one statement over an arbitrary source class or        *)
(* character buffer.                                                        *)
(***************************************************************************)
EXTENDS Integers, Sequences, FiniteSets

VARIABLES prog,   \* the statements of the translation unit
          sel,    \* per statement: the function overload resolution selected
          ip,     \* index of the statement being executed
          pc,     \* position inside that statement
          mem,    \* storage: region -> [alive, data]
          view,   \* the View under construction / v / sanity, or NoView
          temps,  \* temporaries of the current full-expression, in creation order
          ran,    \* branches of the constructor's lambda run by this statement
          out,    \* what has been written to std::cout
          mark,   \* Len(out) when the current statement began
          reads   \* per stream insertion so far: was the referent alive

vars == <<prog, sel, ip, pc, mem, view, temps, ran, out, mark, reads>>

(***************************************************************************)
(* Bounds of the drawn inputs.                                             *)
(***************************************************************************)
MaxLen == 2

(***************************************************************************)
(* Characters and strings.  A string is a sequence of characters; storage  *)
(* holds it followed by the terminator NUL.                                *)
(***************************************************************************)
NUL == "NUL"
Junk == "?"
Alphabet == {"a", "b"}

Hello == <<"H", "e", "l", "l", "o">>
HelloWorld == <<"H", "e", "l", "l", "o", " ", "w", "o", "r", "l", "d">>
CheckOne == <<"C", "h", "e", "c", "k", " ", "1">>
CheckTwo == <<"C", "h", "e", "c", "k", " ", "2">>
Corrupt == <<"C", "o", "r", "r", "u", "p", "t", "!", "!", "!">>

SeqsUpTo(S, n) == UNION {[1..k -> S] : k \in 0..n}

(***************************************************************************)
(* Source classes: a class is the set of conversions it exposes.           *)
(*   "value" operator std::string () const       (prints "Needs extension") *)
(*   "ptr"   operator const char * () const                                 *)
(*   "ref"   operator const std::string & () const                          *)
(*   "view"  operator MyStd::StringView () const (prints "Best choice!")    *)
(***************************************************************************)
Conversions == {"value", "ptr", "ref", "view"}

MyObject0 == [atype |-> "class", caps |-> {"ref", "ptr"}, s |-> Hello]
MyObject1 == [atype |-> "class", caps |-> {"value"}, s |-> HelloWorld]
MyObject2 == [atype |-> "class", caps |-> {"ptr"}, s |-> HelloWorld]
MyObject3 == [atype |-> "class", caps |-> {"ref"}, s |-> HelloWorld]
MyObject4 == [atype |-> "class", caps |-> {"ref", "view"}, s |-> HelloWorld]

Literal(chars) == [atype |-> "literal", caps |-> {}, s |-> chars]
StdString(chars) == [atype |-> "string", caps |-> {}, s |-> chars]

Stmt(kind, arg) == [kind |-> kind, arg |-> arg]

\* main, lines 193-225
MainProg ==
    << Stmt("call_f", MyObject0), Stmt("call_f", MyObject1),
       Stmt("call_f", MyObject2), Stmt("call_f", MyObject3),
       Stmt("call_f", MyObject4),
       Stmt("check1", Literal(CheckOne)),
       Stmt("check2", StdString(CheckTwo)),
       Stmt("check3", MyObject1),
       Stmt("check4", MyObject4),
       Stmt("direct", MyObject3) >>

\* The drawn inputs: any class, any short string, any short terminated buffer.
Classes ==
    {[atype |-> "class", caps |-> c, s |-> x] :
        c \in SUBSET Conversions, x \in SeqsUpTo(Alphabet, MaxLen)}
Literals == {Literal(x) : x \in SeqsUpTo(Alphabet \cup {NUL}, MaxLen)}
StdStrings == {StdString(x) : x \in SeqsUpTo(Alphabet, MaxLen)}

Statements ==
    {Stmt(k, a) : k \in {"call_f", "check3", "check4", "direct"}, a \in Classes}
    \cup {Stmt(k, a) : k \in {"call_f", "check1"}, a \in Literals}
    \cup {Stmt(k, a) : k \in {"call_f", "check2"}, a \in StdStrings}

(***************************************************************************)
(* Storage.  Region "src" is the storage the current statement's source     *)
(* owns (the object's member s, the local std::string, or the literal),     *)
(* "cheat" the holder temporary, "evil" the local of Check 3.               *)
(***************************************************************************)
Regions == {"src", "cheat", "evil"}
NoView == [reg |-> "none", first |-> 0, last |-> 0]
Dead == [alive |-> FALSE, data |-> <<NUL>>]
Live(chars) == [alive |-> TRUE, data |-> chars \o <<NUL>>]

\* std::string::size of the string held in storage d
Size(d) == Len(d) - 1

\* strlen( s ): the number of characters from offset p up to the first NUL
strlen_InclTerminator(d, p) ==
    (CHOOSE n \in (p + 1)..Len(d) :
        d[n] = NUL /\ \A i \in (p + 1)..(n - 1) : d[i] # NUL) - p
RECURSIVE strlen(_, _)
strlen(d, p) == IF d[p + 1] = NUL THEN 0 ELSE 1 + strlen(d, p + 1)

\* BasicStringView( const char *s ), line 42
ViewFromCStr(m, r, p) == [reg |-> r, first |-> p, last |-> p + strlen(m[r].data, p)]

\* BasicStringView( const std::string &s ), line 43
ViewFromString_Short(m, r) == [reg |-> r, first |-> 0, last |-> Size(m[r].data) - 1]
ViewFromString(m, r) == [reg |-> r, first |-> 0, last |-> 0 + Size(m[r].data)]

\* The characters of [first, last) as storage holds them now
Slice(m, v) == SubSeq(m[v.reg].data, v.first + 1, v.last)

\* operator<<, lines 111-118: std::copy of [begin, end) to the stream.  With
\* the referent destroyed the read is undefined: what storage holds now, or junk.
StreamOutcomes(m, v) ==
    IF m[v.reg].alive
    THEN {Slice(m, v)}
    ELSE {Slice(m, v), [i \in 1..(v.last - v.first) |-> Junk]}

Diag(text) == [msg |-> text, data |-> <<>>]
Chars(d) == [msg |-> "", data |-> d]


(***************************************************************************)
(* Compile time: type traits, the constructor's constraint, overload       *)
(* resolution and the if constexpr chain.                                  *)
(***************************************************************************)
\* std::is_convertible< AlienType, const char * >, line 79
IsConvertibleCharPtr(a) ==
    CASE a.atype = "literal" -> TRUE
      [] a.atype = "string" -> FALSE
      [] OTHER -> "ptr" \in a.caps

\* std::is_convertible< AlienType, std::string >, line 80: with both string
\* conversions the copy-initialisation is ambiguous
IsConvertibleString(a) ==
    CASE a.atype = "literal" -> TRUE
      [] a.atype = "string" -> TRUE
      [] OTHER -> ("value" \in a.caps) # ("ref" \in a.caps)

\* std::is_convertible< AlienType, const std::string & >, line 81: binds to
\* the existing string, or to the temporary the value conversion yields
IsConvertibleStringRef(a) ==
    CASE a.atype = "literal" -> TRUE
      [] a.atype = "string" -> TRUE
      [] OTHER -> "value" \in a.caps \/ "ref" \in a.caps

\* MyStd::is_temp_string_convertible, lines 16-25: a member operator std::string
is_temp_string_convertible_Loose(a) == IsConvertibleString(a)
is_temp_string_convertible(a) == a.atype = "class" /\ "value" \in a.caps

\* The enable_if of the generic constructor, lines 77-82
Enabled_Always(a) == TRUE
Enabled(a) ==
    IsConvertibleCharPtr(a) \/ IsConvertibleString(a) \/ IsConvertibleStringRef(a)

\* The functions that can initialise a StringView from the statement's source.
\* f( x ) and "StringView sanity= x" copy-initialise from one argument, where
\* a constructor's argument admits no user-defined conversion; line 225
\* direct-initialises from two arguments, which only the generic constructor takes.
Viable(st) ==
    LET a == st.arg
        copy == st.kind # "direct"
    IN  {c \in {"ctor_cstr"} : copy /\ a.atype = "literal"}
        \cup {c \in {"ctor_str"} : copy /\ a.atype = "string"}
        \cup {c \in {"conv_fn"} : copy /\ a.atype = "class" /\ "view" \in a.caps}
        \cup {c \in {"generic"} : Enabled(a)}

\* Overload resolution: every viable function binds its argument exactly, so
\* the tie goes to the function that is not a template specialisation.
Resolve_PreferTemplate(st) ==
    IF "generic" \in Viable(st) THEN "generic"
    ELSE IF Viable(st) # {} THEN CHOOSE c \in Viable(st) : TRUE
    ELSE "reject"
Resolve(st) ==
    LET plain == Viable(st) \ {"generic"}
    IN  IF plain # {} THEN CHOOSE c \in plain : TRUE
        ELSE IF "generic" \in Viable(st) THEN "generic"
        ELSE "reject"

\* The if constexpr chain of the generic constructor's lambda, lines 89-102
Strategy_ReferenceFirst(a) ==
    IF a.atype = "class" /\ "ref" \in a.caps THEN "reference"
    ELSE IF is_temp_string_convertible(a) THEN "owned"
    ELSE IF IsConvertibleCharPtr(a) THEN "pointer"
    ELSE "reference"
Strategy_PointerFirst(a) ==
    IF IsConvertibleCharPtr(a) THEN "pointer"
    ELSE IF is_temp_string_convertible(a) THEN "owned"
    ELSE "reference"
Strategy(a) ==
    IF is_temp_string_convertible(a) THEN "owned"
    ELSE IF IsConvertibleCharPtr(a) THEN "pointer"
    ELSE "reference"

Select(st) ==
    IF Resolve(st) = "generic" THEN Strategy(st.arg) ELSE Resolve(st)

Generic == {"owned", "pointer", "reference"}
TempKinds == {"facepunch", "cheat", "Verify"}

(***************************************************************************)
(* Run time.                                                               *)
(***************************************************************************)
Cur == prog[ip]
Kind == Cur.kind
Arg == Cur.arg

\* The storage a statement starts from: the source alive (the local s of
\* Check 2 is declared by the block itself), no holder, no evil.
Enter(st) ==
    [r \in Regions |->
        IF r = "src" /\ st.kind # "check2" THEN Live(st.arg.s) ELSE Dead]

Init ==
    /\ prog \in {MainProg} \cup {<<st>> : st \in Statements}
    /\ sel = <<>>
    /\ ip = 1
    /\ pc = "compile"
    /\ mem = [r \in Regions |-> Dead]
    /\ view = NoView
    /\ temps = <<>>
    /\ ran = <<>>
    /\ out = <<>>
    /\ mark = 0
    /\ reads = <<>>

\* Translation: each statement's initialisation is resolved; one ill-formed
\* statement and there is no program to run.  Otherwise main starts (lines
\* 188-192 construct the objects).
Compile ==
    /\ pc = "compile"
    /\ sel' = [i \in 1..Len(prog) |-> Select(prog[i])]
    /\ IF \E i \in 1..Len(prog) : Select(prog[i]) = "reject"
       THEN pc' = "rejected" /\ mem' = mem
       ELSE pc' = "stmt" /\ mem' = Enter(prog[1])
    /\ UNCHANGED <<prog, ip, view, temps, ran, out, mark, reads>>

\* f( x ), "StringView sanity= "Check 1"" and line 225 start with the conversion
BeginPlain ==
    /\ pc = "stmt"
    /\ Kind \in {"call_f", "check1", "direct"}
    /\ pc' = "conv"
    /\ UNCHANGED <<prog, sel, ip, mem, view, temps, ran, out, mark, reads>>

\* lines 212 and 220
Banner ==
    /\ pc = "stmt"
    /\ Kind \in {"check3", "check4"}
    /\ out' = Append(out, Diag(IF Kind = "check3"
                               THEN "Check 3 -- this should be a problem..."
                               ELSE "Check 4 -- this should be a problem..."))
    /\ pc' = "conv"
    /\ UNCHANGED <<prog, sel, ip, mem, view, temps, ran, mark, reads>>

\* line 206: std::string s= "Check 2";
DeclS ==
    /\ pc = "stmt"
    /\ Kind = "check2"
    /\ mem' = [mem EXCEPT !["src"] = Live(Arg.s)]
    /\ pc' = "conv"
    /\ UNCHANGED <<prog, sel, ip, view, temps, ran, out, mark, reads>>

\* Where a statement goes once its View is built: into f, or to the end of
\* the declaration's full-expression.
AfterBuilt == IF Kind = "call_f" THEN "f_body" ELSE "end_expr"

\* lines 42-43 chosen directly: no temporaries, no lambda
PlainCtor ==
    /\ pc = "conv"
    /\ sel[ip] \in {"ctor_cstr", "ctor_str"}
    /\ view' = IF sel[ip] = "ctor_cstr"
               THEN ViewFromCStr(mem, "src", 0)
               ELSE ViewFromString(mem, "src")
    /\ pc' = AfterBuilt
    /\ UNCHANGED <<prog, sel, ip, mem, temps, ran, out, mark, reads>>

\* line 169: operator MyStd::StringView () const
ConversionFunction ==
    /\ pc = "conv"
    /\ sel[ip] = "conv_fn"
    /\ out' = Append(out, Diag("Best choice!"))
    /\ view' = ViewFromString(mem, "src")
    /\ pc' = AfterBuilt
    /\ UNCHANGED <<prog, sel, ip, mem, temps, ran, mark, reads>>

\* line 86: the arguments facepunch, cheat and Verify are materialised, in an
\* order the language leaves unspecified
ArgTemp ==
    /\ pc = "conv"
    /\ sel[ip] \in Generic
    /\ \E t \in TempKinds :
          /\ \A i \in 1..Len(temps) : temps[i] # t
          /\ temps' = Append(temps, t)
          /\ mem' = IF t = "cheat" THEN [mem EXCEPT !["cheat"] = Live(<<>>)] ELSE mem
    /\ UNCHANGED <<prog, sel, ip, pc, view, ran, out, mark, reads>>

ArgsReady == Len(temps) = Cardinality(TempKinds)

\* line 91
OwnedDiag_Silent ==
    /\ pc = "conv"
    /\ sel[ip] = "owned"
    /\ ArgsReady
    /\ ran' = Append(ran, "owned")
    /\ pc' = "owned_conv"
    /\ UNCHANGED <<prog, sel, ip, mem, view, temps, out, mark, reads>>
OwnedDiag ==
    /\ pc = "conv"
    /\ sel[ip] = "owned"
    /\ ArgsReady
    /\ out' = Append(out, Diag("Extending lifetime"))
    /\ ran' = Append(ran, "owned")
    /\ pc' = "owned_conv"
    /\ UNCHANGED <<prog, sel, ip, mem, view, temps, mark, reads>>

\* line 92: cheat= a.operator std::string();  (line 140 prints and copies s)
OwnedConvert ==
    /\ pc = "owned_conv"
    /\ out' = Append(out, Diag("Needs extension"))
    /\ mem' = [mem EXCEPT !["cheat"].data = mem["src"].data]
    /\ pc' = "owned_ret"
    /\ UNCHANGED <<prog, sel, ip, view, temps, ran, mark, reads>>

\* line 93: return cheat;
OwnedReturn ==
    /\ pc = "owned_ret"
    /\ view' = ViewFromString(mem, "cheat")
    /\ pc' = AfterBuilt
    /\ UNCHANGED <<prog, sel, ip, mem, temps, ran, out, mark, reads>>

\* line 97: return static_cast< const char * >( a );
PointerBranch ==
    /\ pc = "conv"
    /\ sel[ip] = "pointer"
    /\ ArgsReady
    /\ ran' = Append(ran, "pointer")
    /\ view' = ViewFromCStr(mem, "src", 0)
    /\ pc' = AfterBuilt
    /\ UNCHANGED <<prog, sel, ip, mem, temps, out, mark, reads>>

\* line 101: return static_cast< const std::string & >( a );
ReferenceBranch ==
    /\ pc = "conv"
    /\ sel[ip] = "reference"
    /\ ArgsReady
    /\ ran' = Append(ran, "reference")
    /\ view' = ViewFromString(mem, "src")
    /\ pc' = AfterBuilt
    /\ UNCHANGED <<prog, sel, ip, mem, temps, out, mark, reads>>

\* f, lines 179-183
FBody ==
    /\ pc = "f_body"
    /\ \E x \in StreamOutcomes(mem, view) :
          out' = out \o <<Diag("F Called with: "), Chars(x), Diag("...")>>
    /\ reads' = Append(reads, mem[view.reg].alive)
    /\ pc' = "end_expr"
    /\ UNCHANGED <<prog, sel, ip, mem, view, temps, ran, mark>>

\* The end of the full-expression that created them: the temporaries go in
\* reverse order of creation.  ~Verify (line 11) prints; ~string frees cheat.
DestroyTemp_Early ==
    /\ pc \in {"f_body", "end_expr"}
    /\ temps # <<>>
    /\ LET t == temps[Len(temps)]
       IN  /\ temps' = SubSeq(temps, 1, Len(temps) - 1)
           /\ out' = IF t = "Verify"
                     THEN Append(out, Diag("Killing lifetime extension"))
                     ELSE out
           /\ mem' = IF t = "cheat" THEN [mem EXCEPT !["cheat"].alive = FALSE] ELSE mem
    /\ UNCHANGED <<prog, sel, ip, pc, view, ran, mark, reads>>
DestroyTemp_Extended ==
    /\ pc = "end_expr"
    /\ temps # <<>>
    /\ LET t == temps[Len(temps)]
       IN  /\ temps' = SubSeq(temps, 1, Len(temps) - 1)
           /\ out' = IF t = "Verify"
                     THEN Append(out, Diag("Killing lifetime extension"))
                     ELSE out
           /\ mem' = mem
    /\ UNCHANGED <<prog, sel, ip, pc, view, ran, mark, reads>>
DestroyTemp ==
    /\ pc = "end_expr"
    /\ temps # <<>>
    /\ LET t == temps[Len(temps)]
       IN  /\ temps' = SubSeq(temps, 1, Len(temps) - 1)
           /\ out' = IF t = "Verify"
                     THEN Append(out, Diag("Killing lifetime extension"))
                     ELSE out
           /\ mem' = IF t = "cheat" THEN [mem EXCEPT !["cheat"].alive = FALSE] ELSE mem
    /\ UNCHANGED <<prog, sel, ip, pc, view, ran, mark, reads>>

\* On to the next statement of main, or out of main (line 226).
Advance ==
    /\ IF ip < Len(prog)
       THEN ip' = ip + 1 /\ pc' = "stmt" /\ mem' = Enter(prog[ip + 1])
       ELSE ip' = ip /\ pc' = "done" /\ mem' = [r \in Regions |-> Dead]
    /\ view' = NoView
    /\ temps' = <<>>
    /\ ran' = <<>>
    /\ reads' = <<>>
    /\ mark' = Len(out)
    /\ UNCHANGED <<prog, sel, out>>

\* f( x ); and line 225 are whole statements
EndStatement ==
    /\ pc = "end_expr"
    /\ temps = <<>>
    /\ Kind \in {"call_f", "direct"}
    /\ Advance

\* the declaration of sanity is complete; the block goes on
EndDeclaration ==
    /\ pc = "end_expr"
    /\ temps = <<>>
    /\ Kind \in {"check1", "check2", "check3", "check4"}
    /\ pc' = IF Kind = "check3" THEN "c3_evil" ELSE "checked"
    /\ UNCHANGED <<prog, sel, ip, mem, view, temps, ran, out, mark, reads>>

\* What storage holds once e has been written over d
Overwrite(d, e) == [i \in 1..Len(d) |-> IF i <= Len(e) THEN e[i] ELSE d[i]]

\* line 214: std::string evil= "Corrupt!!!";  It may or may not land on the
\* storage the destroyed holder left.
DeclEvil ==
    /\ pc = "c3_evil"
    /\ \E reuse \in BOOLEAN :
          mem' = [mem EXCEPT
                    !["evil"] = Live(Corrupt),
                    !["cheat"] = IF reuse /\ ran # <<>> /\ ~mem["cheat"].alive
                                 THEN [alive |-> FALSE,
                                       data |-> Overwrite(mem["cheat"].data,
                                                          Corrupt \o <<NUL>>)]
                                 ELSE @]
    /\ pc' = "c3_stream"
    /\ UNCHANGED <<prog, sel, ip, view, temps, ran, out, mark, reads>>

\* line 215
StreamSanity ==
    /\ pc = "c3_stream"
    /\ \E x \in StreamOutcomes(mem, view) :
          out' = out \o <<Diag("Expect corruption: "), Chars(x)>>
    /\ reads' = Append(reads, mem[view.reg].alive)
    /\ pc' = "checked"
    /\ UNCHANGED <<prog, sel, ip, mem, view, temps, ran, mark>>

CheckedText(k) ==
    CASE k = "check1" -> "Checked"
      [] k = "check2" -> "Checked 2"
      [] k = "check3" -> "Checked 3"
      [] OTHER -> "Checked 4"

\* lines 202, 208, 216, 222
PrintChecked ==
    /\ pc = "checked"
    /\ out' = Append(out, Diag(CheckedText(Kind)))
    /\ pc' = "scope_exit"
    /\ UNCHANGED <<prog, sel, ip, mem, view, temps, ran, mark, reads>>

\* the closing brace of a Check block: its locals go
ScopeExit ==
    /\ pc = "scope_exit"
    /\ Advance

Next ==
    \/ Compile
    \/ BeginPlain
    \/ Banner
    \/ DeclS
    \/ PlainCtor
    \/ ConversionFunction
    \/ ArgTemp
    \/ OwnedDiag
    \/ OwnedConvert
    \/ OwnedReturn
    \/ PointerBranch
    \/ ReferenceBranch
    \/ FBody
    \/ DestroyTemp
    \/ EndStatement
    \/ EndDeclaration
    \/ DeclEvil
    \/ StreamSanity
    \/ PrintChecked
    \/ ScopeExit

Spec == Init /\ [][Next]_vars

TypeOK ==
    /\ pc \in {"compile", "rejected", "stmt", "conv", "owned_conv", "owned_ret",
               "f_body", "end_expr", "c3_evil", "c3_stream", "checked",
               "scope_exit", "done"}
    /\ ip \in 1..Len(prog)
    /\ view.first <= view.last

(***************************************************************************)
(* Vocabulary of the properties.                                           *)
(***************************************************************************)
Running == pc \notin {"compile", "rejected", "done"}
\* the View of the current statement has been constructed
Built == pc \in {"f_body", "end_expr", "c3_evil", "c3_stream", "checked", "scope_exit"}
\* the declaration statement of sanity has completed
AfterDeclaration == pc \in {"c3_evil", "c3_stream", "checked", "scope_exit"}
\* f has returned and the full-expression of the call is complete
CallComplete == pc = "end_expr" /\ temps = <<>>
\* positions of the current statement's output
Seg == (mark + 1)..Len(out)
Where(text) == {i \in Seg : out[i] = Diag(text)}
IsClass(c) == Arg.atype = "class" /\ Arg.caps = c

\* C1: a named View initialised through the generic constructor from a source
\* whose only conversion is value-producing, with the defaulted holder: once
\* the declaration has completed the holder is destroyed while the View still
\* points into it, in every later state of the block, and the stream insertion
\* of Check 3 reads a referent that is no longer alive.
C1_DanglingAfterDeclaration ==
    (Running /\ Kind = "check3" /\ IsClass({"value"})) =>
        /\ sel[ip] = "owned"
        /\ AfterDeclaration =>
              /\ view.reg = "cheat"
              /\ view.last - view.first = Len(Arg.s)
              /\ ~mem[view.reg].alive
        /\ pc \in {"checked", "scope_exit"} => reads = <<FALSE>>

C1_Witness ==
    /\ Kind = "check3" /\ Arg = MyObject1
    /\ pc = "checked"
    /\ reads = <<FALSE>>
    /\ ~mem[view.reg].alive

\* C2: whenever the generic constructor is entered for a class, exactly one
\* branch of its lambda runs, chosen in this order: the owned-string branch if
\* the value-producing conversion is present (whatever else is), otherwise the
\* pointer branch if the pointer conversion is present (so MyObject0 takes it),
\* otherwise the reference branch.
C2_Expected(c) ==
    IF "value" \in c THEN "owned" ELSE IF "ptr" \in c THEN "pointer" ELSE "reference"

C2_StrategyOrder ==
    (Running /\ Arg.atype = "class" /\ sel[ip] \in Generic) =>
        /\ Len(ran) <= 1
        /\ Built =>
              /\ ran = <<C2_Expected(Arg.caps)>>
              /\ view.reg = IF "value" \in Arg.caps THEN "cheat" ELSE "src"

C2_Witness ==
    /\ Kind = "call_f" /\ Arg = MyObject0
    /\ CallComplete
    /\ ran = <<"pointer">>

\* C3 as stated: a class with both the reference and the value-producing
\* conversion gets the reference-aliasing branch (no copy into the holder).
C3_Original ==
    (Running /\ Arg.atype = "class" /\ {"ref", "value"} \subseteq Arg.caps
        /\ sel[ip] \in Generic /\ Built) =>
        /\ ran = <<"reference">>
        /\ view.reg = "src"

\* C3 amended: such a class gets the value-producing (extension) branch: the
\* converted string is copied into the holder and the View points into the
\* holder.  The reference branch runs only for a class with neither the
\* value-producing nor the pointer conversion.
C3_ValueBeforeReference ==
    (Running /\ Arg.atype = "class" /\ sel[ip] \in Generic /\ Built) =>
        /\ {"ref", "value"} \subseteq Arg.caps =>
              /\ ran = <<"owned">>
              /\ view.reg = "cheat"
              /\ mem["cheat"].alive => mem["cheat"].data = Arg.s \o <<NUL>>
        /\ ran = <<"reference">> => Arg.caps \cap {"value", "ptr"} = {}

C3_Witness ==
    /\ Kind = "call_f" /\ IsClass({"ref", "value"})
    /\ pc = "f_body"
    /\ ran = <<"owned">>
    /\ Len(Arg.s) = MaxLen

\* C4: a class with none of the conversions (no pointer, no string value, no
\* string reference, no View) is rejected at translation: nothing runs, so no
\* View exists, no temporary is made, no branch runs and nothing is printed.
C4_RejectedBeforeRuntime ==
    \A i \in 1..Len(prog) :
        (prog[i].arg.atype = "class" /\ prog[i].arg.caps = {}) =>
            /\ pc \in {"compile", "rejected"}
            /\ pc = "rejected" => sel[i] = "reject"
            /\ out = <<>> /\ view = NoView /\ temps = <<>> /\ ran = <<>>
            /\ \A r \in Regions : ~mem[r].alive

C4_Witness ==
    /\ pc = "rejected"
    /\ Kind = "call_f" /\ IsClass({})
    /\ sel = <<"reject">>

\* C5: f( o1 ) for a class with only the value-producing conversion takes the
\* extension branch, and "Extending lifetime" is the first thing the call
\* prints: before "Needs extension" and before f's "F Called with: ...".
C5_ExtendingFirst ==
    (Running /\ Kind = "call_f" /\ IsClass({"value"})) =>
        /\ sel[ip] = "owned"
        /\ Seg # {} => out[mark + 1] = Diag("Extending lifetime")
        /\ \A i \in Where("Needs extension") \cup Where("F Called with: ") :
              \E j \in Where("Extending lifetime") : j < i
        /\ pc = "end_expr" =>
              SubSeq(out, mark + 1, mark + 5) =
                  << Diag("Extending lifetime"), Diag("Needs extension"),
                     Diag("F Called with: "), Chars(Arg.s), Diag("...") >>

C5_Witness ==
    /\ Kind = "call_f" /\ Arg = MyObject1
    /\ CallComplete
    /\ out[mark + 2] = Diag("Needs extension")

\* C6: for a class with the reference conversion and the direct View
\* conversion (MyObject4), f( o4 ) and "StringView sanity= o4" both use the
\* class's own conversion: "Best choice!" is printed, the generic constructor
\* is not entered (no temporaries, no branch, neither "Extending lifetime" nor
\* "Killing lifetime extension"), and the View aliases the object's own string.
C6_DirectConversion ==
    (Running /\ Kind \in {"call_f", "check4"} /\ IsClass({"ref", "view"})) =>
        /\ sel[ip] = "conv_fn"
        /\ temps = <<>> /\ ran = <<>>
        /\ Where("Extending lifetime") = {}
        /\ Where("Killing lifetime extension") = {}
        /\ Built =>
              /\ Cardinality(Where("Best choice!")) = 1
              /\ view.reg = "src"
              /\ mem["src"].alive
              /\ Slice(mem, view) = Arg.s

C6_Witness ==
    /\ Kind = "check4" /\ Arg = MyObject4
    /\ pc = "scope_exit"
    /\ Where("Best choice!") # {}

\* C7: f( o3 ) for a class with only the reference conversion runs the
\* reference-aliasing branch: "Extending lifetime" is not printed during the
\* call, nothing is copied into the holder, and f streams exactly the
\* object's string.
C7_ReferenceAliasing ==
    (Running /\ Kind = "call_f" /\ IsClass({"ref"})) =>
        /\ sel[ip] = "reference"
        /\ Where("Extending lifetime") = {}
        /\ mem["cheat"].data = <<NUL>>
        /\ Built => ran = <<"reference">> /\ view.reg = "src"
        /\ pc = "end_expr" =>
              /\ reads = <<TRUE>>
              /\ SubSeq(out, mark + 1, mark + 3) =
                    <<Diag("F Called with: "), Chars(Arg.s), Diag("...")>>

C7_Witness ==
    /\ Kind = "call_f" /\ Arg = MyObject3
    /\ CallComplete
    /\ out[mark + 2] = Chars(HelloWorld)

\* C8: a View built from a null-terminated character sequence with L
\* characters before the terminator has end - begin = L (begin <= end), and
\* stream insertion writes exactly those L characters, in order, no terminator.
C8_L(s) ==
    CHOOSE n \in 0..Len(s) :
        /\ n = Len(s) \/ s[n + 1] = NUL
        /\ \A i \in 1..n : s[i] # NUL

C8_LiteralLength ==
    (Running /\ Arg.atype = "literal") =>
        /\ sel[ip] = "ctor_cstr"
        /\ Built =>
              /\ view.reg = "src"
              /\ view.first <= view.last
              /\ view.last - view.first = C8_L(Arg.s)
        /\ (Kind = "call_f" /\ pc = "end_expr") =>
              SubSeq(out, mark + 1, Len(out)) =
                  << Diag("F Called with: "),
                     Chars(SubSeq(Arg.s, 1, C8_L(Arg.s))), Diag("...") >>

C8_Witness ==
    /\ Kind = "call_f" /\ Arg = Literal(<<"a", "b">>)
    /\ pc = "end_expr"
    /\ out[mark + 2] = Chars(<<"a", "b">>)

\* C9: a View built from a reference to an existing std::string s aliases s
\* without copying and without the generic constructor; while s is neither
\* mutated nor destroyed the View's streamed content is s's content; and no
\* step changes the begin/end of a View once it is constructed.
C9_Aliases ==
    (Running /\ Arg.atype = "string") =>
        /\ sel[ip] = "ctor_str"
        /\ temps = <<>> /\ ran = <<>>
        /\ Where("Killing lifetime extension") = {}
        /\ ~mem["cheat"].alive
        /\ (view # NoView /\ mem["src"] = Live(Arg.s)) =>
              /\ view.reg = "src"
              /\ StreamOutcomes(mem, view) = {Arg.s}
        /\ (Kind = "call_f" /\ pc = "end_expr") => out[mark + 2] = Chars(Arg.s)

C9_AliasNeverMutated ==
    /\ []C9_Aliases
    /\ [][view # NoView => (view' = view \/ view' = NoView)]_vars

C9_Witness ==
    /\ Kind = "check2" /\ Arg = StdString(CheckTwo)
    /\ pc = "checked"
    /\ view = [reg |-> "src", first |-> 0, last |-> 7]

\* C10: in f( x ) through the generic constructor the holder and the Verify
\* temporary are destroyed only after f has returned: "Killing lifetime
\* extension" is printed exactly once per call and after that call's "F Called
\* with: ...", and when f streams the View its referent is alive.
C10_TemporariesOutliveCall ==
    (Running /\ Kind = "call_f" /\ Arg.atype = "class" /\ sel[ip] \in Generic) =>
        /\ Cardinality(Where("Killing lifetime extension")) <= 1
        /\ \A i \in Where("Killing lifetime extension") :
              \E j \in Where("F Called with: ") : j < i
        /\ pc = "f_body" =>
              /\ mem[view.reg].alive
              /\ \A t \in {"cheat", "Verify"} : \E i \in 1..Len(temps) : temps[i] = t
        /\ pc = "end_expr" => reads = <<TRUE>>
        /\ CallComplete =>
              /\ Cardinality(Where("Killing lifetime extension")) = 1
              /\ ~mem["cheat"].alive

C10_Witness ==
    /\ Kind = "call_f" /\ Arg = MyObject1
    /\ CallComplete
    /\ reads = <<TRUE>>
    /\ view.reg = "cheat"
=============================================================================
